---- MODULE Spec2Model ----
(***************************************************************************)
(* RAII wrappers around OpenGL object handles (VAO, GLBuffer, GLTexture,   *)
(* GLFBO, GLSLShader, GLSLProgram), the stderr debug callback and the      *)
(* scoped debug marker.                                                    *)
(*                                                                         *)
(* The wrappers own no state but a handle and (for some) a target; all     *)
(* other state lives in the driver.  The driver is modelled by the part of *)
(* its state the wrappers' calls set: the names handed out and not yet     *)
(* passed to a delete call, the binding points, the shaders attached to a  *)
(* program and the depth of the debug group stack.  Every action is one    *)
(* whole constructor, destructor, method or callback; the driver calls it  *)
(* issues, in order, are left in lastCalls.  Arguments that are forwarded  *)
(* to the driver untouched and decide nothing (names, data pointers,       *)
(* sizes, offsets, formats, levels) are not carried.                       *)
(***************************************************************************)
EXTENDS Integers, Sequences, FiniteSets

\* ---- bounds of the model ----
MaxMixed == 1
MaxShaderObjects == 2
MaxHandle == 3
MaxBufferTarget == 1
MaxTexTarget == 1
MaxDim == 2
MaxLogLen == 1
MaxShaders == 2
MaxMarkers == 3

\* ---- framebuffer targets named by GLFBO::target ----
GL_FRAMEBUFFER == 36160
GL_READ_FRAMEBUFFER == 36008
GL_DRAW_FRAMEBUFFER == 36009

\* Storage for wrapper objects: MixedSlots hold objects of any kind,
\* ShaderSlots the shaders a program is built from, ProgramSlots that program.
MixedSlots == 1..MaxMixed
ShaderSlots == 1..MaxShaderObjects
ProgramSlots == {MaxShaderObjects + 1}
Slots == MixedSlots \cup ShaderSlots \cup ProgramSlots
Handles == 1..MaxHandle
BufferTargets == 1..MaxBufferTarget
TexTargets == 1..MaxTexTarget
FBOTargets == {GL_FRAMEBUFFER, GL_READ_FRAMEBUFFER, GL_DRAW_FRAMEBUFFER}
Dims == 1..MaxDim
\* width is forwarded to every storage call and decides nothing
Widths == {MaxDim}
LogLens == 0..MaxLogLen
Kinds == {"VAO", "GLBuffer", "GLTexture", "GLFBO", "GLSLShader", "GLSLProgram"}

DebugSources == {"GL_DEBUG_SOURCE_API", "GL_DEBUG_SOURCE_SHADER_COMPILER",
                 "GL_DEBUG_SOURCE_APPLICATION", "other"}
DebugTypes == {"GL_DEBUG_TYPE_ERROR", "GL_DEBUG_TYPE_PERFORMANCE",
               "GL_DEBUG_TYPE_MARKER", "other"}
DebugSeverities == {"GL_DEBUG_SEVERITY_HIGH", "GL_DEBUG_SEVERITY_MEDIUM",
                    "GL_DEBUG_SEVERITY_LOW", "GL_DEBUG_SEVERITY_NOTIFICATION", "other"}

\* What printf("%s", nullptr) may do: print a placeholder, or fault.
NullStringOutcomes == {"prints", "faults"}

\* What the driver answers to one compile or link and the log query after it,
\* and what a null %s then does.  The log length is read only after a failure
\* and the null outcome matters only for an empty log, so one representative
\* stands for the answers that are never read.
StatusAnswers ==
    {a \in [ok : BOOLEAN, logLength : LogLens, nullOutcome : NullStringOutcomes] :
        /\ a.ok => a.logLength = 0
        /\ (a.ok \/ a.logLength > 0) => a.nullOutcome = "prints"}

VARIABLES
    NDEBUG,     \* the build: TRUE when compiled with NDEBUG
    proc,       \* "running", "exited" (exit(1)), "faulted", "aborted" (assert)
    wrappers,   \* slot -> the wrapper object stored there
    markers,    \* number of live GLScopedDebugMarker objects
    drv,        \* the driver's state
    lastOp,     \* the operation that ran last, with its inputs
    lastCalls,  \* the calls that operation issued, in order
    lastRet     \* what that operation returned (0: nothing, false or null)

vars == <<NDEBUG, proc, wrappers, markers, drv, lastOp, lastCalls, lastRet>>

\* ---- helpers ----
Call(fn, args) == [fn |-> fn, args |-> args, ret |-> 0]
CallRet(fn, args, ret) == [fn |-> fn, args |-> args, ret |-> ret]
Op(name, w, args) == [name |-> name, w |-> w, args |-> args]

RECURSIVE CountFn(_, _)
CountFn(calls, fns) ==
    IF calls = <<>> THEN 0
    ELSE (IF Head(calls).fn \in fns THEN 1 ELSE 0) + CountFn(Tail(calls), fns)

Positions(calls, fns) == {i \in 1..Len(calls) : calls[i].fn \in fns}

RECURSIVE SeqsUpTo(_, _)
SeqsUpTo(S, n) ==
    IF n = 0 THEN {<<>>}
    ELSE LET shorter == SeqsUpTo(S, n - 1)
         IN  shorter \cup {Append(s, x) : s \in shorter, x \in S}

\* struct GLHandle: handle = 0 until a constructor sets it.
NoWrapper == [st |-> "none", kind |-> "none", handle |-> 0, target |-> 0]
\* A destroyed object: its storage holds nothing a program may read.
Destroyed == [st |-> "destroyed", kind |-> "none", handle |-> 0, target |-> 0]
Wrapper(kind, handle, target) ==
    [st |-> "alive", kind |-> kind, handle |-> handle, target |-> target]

Alive(w, kind) == wrappers[w].st = "alive" /\ wrappers[w].kind = kind
Free(w) == wrappers[w].st # "alive"

\* Shader and program names share one name space in the driver.
Namespace(kind) == IF kind \in {"GLSLShader", "GLSLProgram"} THEN "object" ELSE kind

\* The names a glGen*/glCreate* call may return.  The wrappers store a name
\* and hand it back without looking at it, so the driver is taken to return
\* the lowest name not in use.  A program that is still current keeps its
\* name until it is no longer current.
Unused(kind) ==
    LET free == {h \in Handles : /\ <<Namespace(kind), h>> \notin drv.live
                                 /\ (Namespace(kind) = "object" => h # drv.curProgram)}
    IN  {h \in free : \A g \in free : h <= g}

Running == proc = "running"

Init ==
    /\ NDEBUG \in BOOLEAN
    /\ proc = "running"
    /\ wrappers = [w \in Slots |-> NoWrapper]
    /\ markers = 0
    /\ drv = [live |-> {},
              curVAO |-> 0,
              bufBinding |-> [t \in BufferTargets |-> 0],
              texBinding |-> [t \in TexTargets |-> 0],
              fboRead |-> 0,
              fboDraw |-> 0,
              curProgram |-> 0,
              linked |-> {},
              attached |-> [p \in Handles |-> {}],
              groupDepth |-> 0,
              debugOutput |-> FALSE]
    /\ lastOp = Op("start", 0, <<>>)
    /\ lastCalls = <<>>
    /\ lastRet = 0

\* A method that forwards to driver calls which change nothing modelled.
Forward(name, w, args, calls, ret) ==
    /\ lastOp' = Op(name, w, args)
    /\ lastCalls' = calls
    /\ lastRet' = ret
    /\ UNCHANGED <<NDEBUG, proc, wrappers, markers, drv>>

\* A step that changes wrappers and driver but neither build, process nor markers.
Step(name, w, args, calls, ret) ==
    /\ lastOp' = Op(name, w, args)
    /\ lastCalls' = calls
    /\ lastRet' = ret
    /\ UNCHANGED <<NDEBUG, proc, markers>>

\* ======================= VAO =======================
\* Mutant: the constructor does not bind the new vertex array.
VAO_ctor_NoBind(w) ==
    /\ Running /\ Free(w)
    /\ \E h \in Unused("VAO") :
        /\ wrappers' = [wrappers EXCEPT ![w] = Wrapper("VAO", h, 0)]
        /\ drv' = [drv EXCEPT !.live = @ \cup {<<"VAO", h>>}]
        /\ Step("VAO::VAO", w, <<>>,
                <<CallRet("glGenVertexArrays", <<1>>, h),
                  Call("glObjectLabel", <<"GL_VERTEX_ARRAY", h>>)>>, 0)

VAO_ctor(w) ==
    /\ Running /\ Free(w)
    /\ \E h \in Unused("VAO") :
        /\ wrappers' = [wrappers EXCEPT ![w] = Wrapper("VAO", h, 0)]
        /\ drv' = [drv EXCEPT !.live = @ \cup {<<"VAO", h>>}, !.curVAO = h]
        /\ Step("VAO::VAO", w, <<>>,
                <<CallRet("glGenVertexArrays", <<1>>, h),
                  Call("glBindVertexArray", <<h>>),
                  Call("glObjectLabel", <<"GL_VERTEX_ARRAY", h>>)>>, 0)

VAO_dtor(w) ==
    /\ Running /\ Alive(w, "VAO")
    /\ LET h == wrappers[w].handle IN
        /\ wrappers' = [wrappers EXCEPT ![w] = Destroyed]
        /\ drv' = [drv EXCEPT !.live = @ \ {<<"VAO", h>>},
                              !.curVAO = IF @ = h THEN 0 ELSE @]
        /\ Step("VAO::~VAO", w, <<>>, <<Call("glDeleteVertexArrays", <<h>>)>>, 0)

VAO_bind(w) ==
    /\ Running /\ Alive(w, "VAO")
    /\ LET h == wrappers[w].handle IN
        /\ drv' = [drv EXCEPT !.curVAO = h]
        /\ UNCHANGED wrappers
        /\ Step("VAO::bind", w, <<>>, <<Call("glBindVertexArray", <<h>>)>>, 0)

\* ======================= GLBuffer =======================
GLBuffer_ctor(w, target) ==
    /\ Running /\ Free(w)
    /\ \E h \in Unused("GLBuffer") :
        /\ wrappers' = [wrappers EXCEPT ![w] = Wrapper("GLBuffer", h, target)]
        /\ drv' = [drv EXCEPT !.live = @ \cup {<<"GLBuffer", h>>},
                              !.bufBinding[target] = h]
        /\ Step("GLBuffer::GLBuffer", w, <<target>>,
                <<CallRet("glGenBuffers", <<1>>, h),
                  Call("glBindBuffer", <<target, h>>),
                  Call("glObjectLabel", <<"GL_BUFFER", h>>)>>, 0)

\* Mutant: a destructor that forgets glDeleteBuffers.
GLBuffer_dtor_NoDelete(w) ==
    /\ Running /\ Alive(w, "GLBuffer")
    /\ wrappers' = [wrappers EXCEPT ![w] = Destroyed]
    /\ UNCHANGED drv
    /\ Step("GLBuffer::~GLBuffer", w, <<>>, <<>>, 0)

GLBuffer_dtor(w) ==
    /\ Running /\ Alive(w, "GLBuffer")
    /\ LET h == wrappers[w].handle IN
        /\ wrappers' = [wrappers EXCEPT ![w] = Destroyed]
        /\ drv' = [drv EXCEPT !.live = @ \ {<<"GLBuffer", h>>},
                              !.bufBinding = [t \in BufferTargets |->
                                                IF @[t] = h THEN 0 ELSE @[t]]]
        /\ Step("GLBuffer::~GLBuffer", w, <<>>, <<Call("glDeleteBuffers", <<h>>)>>, 0)

GLBuffer_bind(w) ==
    /\ Running /\ Alive(w, "GLBuffer")
    /\ LET h == wrappers[w].handle
           t == wrappers[w].target IN
        /\ drv' = [drv EXCEPT !.bufBinding[t] = h]
        /\ UNCHANGED wrappers
        /\ Step("GLBuffer::bind", w, <<>>, <<Call("glBindBuffer", <<t, h>>)>>, 0)

GLBuffer_unbind(w) ==
    /\ Running /\ Alive(w, "GLBuffer")
    /\ LET t == wrappers[w].target IN
        /\ drv' = [drv EXCEPT !.bufBinding[t] = 0]
        /\ UNCHANGED wrappers
        /\ Step("GLBuffer::unbind", w, <<>>, <<Call("glBindBuffer", <<t, 0>>)>>, 0)

\* bindBase and bindRange also set the generic binding point of the target.
GLBuffer_bindBase(w) ==
    /\ Running /\ Alive(w, "GLBuffer")
    /\ LET h == wrappers[w].handle
           t == wrappers[w].target IN
        /\ drv' = [drv EXCEPT !.bufBinding[t] = h]
        /\ UNCHANGED wrappers
        /\ Step("GLBuffer::bindBase", w, <<>>, <<Call("glBindBufferBase", <<t, h>>)>>, 0)

GLBuffer_bindRange(w) ==
    /\ Running /\ Alive(w, "GLBuffer")
    /\ LET h == wrappers[w].handle
           t == wrappers[w].target IN
        /\ drv' = [drv EXCEPT !.bufBinding[t] = h]
        /\ UNCHANGED wrappers
        /\ Step("GLBuffer::bindRange", w, <<>>, <<Call("glBindBufferRange", <<t, h>>)>>, 0)

GLBuffer_setStorage(w) ==
    /\ Running /\ Alive(w, "GLBuffer")
    /\ Forward("GLBuffer::setStorage", w, <<>>,
               <<Call("glBufferStorage", <<wrappers[w].target>>)>>, 0)

GLBuffer_setData(w) ==
    /\ Running /\ Alive(w, "GLBuffer")
    /\ Forward("GLBuffer::setData", w, <<>>,
               <<Call("glBufferData", <<wrappers[w].target>>)>>, 0)

GLBuffer_setSubData(w) ==
    /\ Running /\ Alive(w, "GLBuffer")
    /\ Forward("GLBuffer::setSubData", w, <<>>,
               <<Call("glBufferSubData", <<wrappers[w].target>>)>>, 0)

GLBuffer_map(w) ==
    /\ Running /\ Alive(w, "GLBuffer")
    /\ Forward("GLBuffer::map", w, <<>>,
               <<Call("glMapBuffer", <<wrappers[w].target>>)>>, 0)

GLBuffer_mapRange(w) ==
    /\ Running /\ Alive(w, "GLBuffer")
    /\ Forward("GLBuffer::mapRange", w, <<>>,
               <<Call("glMapBufferRange", <<wrappers[w].target>>)>>, 0)

GLBuffer_unmap(w) ==
    /\ Running /\ Alive(w, "GLBuffer")
    /\ Forward("GLBuffer::unmap", w, <<>>,
               <<Call("glUnmapBuffer", <<wrappers[w].target>>)>>, 0)

\* ======================= GLTexture =======================
\* Mutant: height is tested before depth.
GLTexture_storage_HeightFirst(target, width, height, depth) ==
    IF height # 1 THEN Call("glTexStorage2D", <<target, width, height>>)
    ELSE IF depth # 1 THEN Call("glTexStorage3D", <<target, width, height, depth>>)
    ELSE Call("glTexStorage1D", <<target, width>>)

\* The storage call the constructor picks.
GLTexture_storage(target, width, height, depth) ==
    IF depth # 1 THEN Call("glTexStorage3D", <<target, width, height, depth>>)
    ELSE IF height # 1 THEN Call("glTexStorage2D", <<target, width, height>>)
    ELSE Call("glTexStorage1D", <<target, width>>)

GLTexture_ctor(w, target, width, height, depth) ==
    /\ Running /\ Free(w)
    /\ \E h \in Unused("GLTexture") :
        /\ wrappers' = [wrappers EXCEPT ![w] = Wrapper("GLTexture", h, target)]
        /\ drv' = [drv EXCEPT !.live = @ \cup {<<"GLTexture", h>>},
                              !.texBinding[target] = h]
        /\ Step("GLTexture::GLTexture", w, <<target, width, height, depth>>,
                <<CallRet("glGenTextures", <<1>>, h),
                  Call("glBindTexture", <<target, h>>),
                  Call("glObjectLabel", <<"GL_TEXTURE", h>>),
                  GLTexture_storage(target, width, height, depth)>>, 0)

GLTexture_dtor(w) ==
    /\ Running /\ Alive(w, "GLTexture")
    /\ LET h == wrappers[w].handle IN
        /\ wrappers' = [wrappers EXCEPT ![w] = Destroyed]
        /\ drv' = [drv EXCEPT !.live = @ \ {<<"GLTexture", h>>},
                              !.texBinding = [t \in TexTargets |->
                                                IF @[t] = h THEN 0 ELSE @[t]]]
        /\ Step("GLTexture::~GLTexture", w, <<>>, <<Call("glDeleteTextures", <<h>>)>>, 0)

GLTexture_bind(w) ==
    /\ Running /\ Alive(w, "GLTexture")
    /\ LET h == wrappers[w].handle
           t == wrappers[w].target IN
        /\ drv' = [drv EXCEPT !.texBinding[t] = h]
        /\ UNCHANGED wrappers
        /\ Step("GLTexture::bind", w, <<>>, <<Call("glBindTexture", <<t, h>>)>>, 0)

GLTexture_setSubData(w) ==
    /\ Running /\ Alive(w, "GLTexture")
    /\ Forward("GLTexture::setSubData", w, <<>>,
               <<Call("glTexSubImage2D", <<wrappers[w].target>>)>>, 0)

GLTexture_generateMipmaps(w) ==
    /\ Running /\ Alive(w, "GLTexture")
    /\ Forward("GLTexture::generateMipmaps", w, <<>>,
               <<Call("glGenerateMipmap", <<wrappers[w].target>>)>>, 0)

\* get<T>(name): the assert aborts a debug build when name is
\* GL_TEXTURE_BORDER_COLOR; an NDEBUG build lets the driver write four values
\* into the one-element result, which returns or faults.
GLTexture_get(w, integral, borderColor, overrun) ==
    /\ Running /\ Alive(w, "GLTexture")
    /\ lastOp' = Op("GLTexture::get", w, <<integral, borderColor>>)
    /\ lastRet' = 0
    /\ IF borderColor /\ ~NDEBUG
       THEN /\ proc' = "aborted"
            /\ lastCalls' = <<Call("abort", <<>>)>>
       ELSE /\ proc' = IF borderColor /\ overrun = "faults" THEN "faulted" ELSE proc
            /\ lastCalls' = <<Call(IF integral THEN "glGetTexParameteriv"
                                               ELSE "glGetTexParameterfv",
                                   <<wrappers[w].target>>)>>
    /\ UNCHANGED <<NDEBUG, wrappers, markers, drv>>

GLTexture_set(w, integral) ==
    /\ Running /\ Alive(w, "GLTexture")
    /\ Forward("GLTexture::set", w, <<integral>>,
               <<Call(IF integral THEN "glTexParameteri" ELSE "glTexParameterf",
                      <<wrappers[w].target>>)>>, 0)

\* ======================= GLFBO =======================
\* glBindFramebuffer: GL_FRAMEBUFFER sets the read and the draw binding, the
\* other two targets set their own; any other target is GL_INVALID_ENUM and
\* changes nothing.
BindFramebuffer(d, target, h) ==
    [d EXCEPT !.fboRead = IF target \in {GL_FRAMEBUFFER, GL_READ_FRAMEBUFFER}
                          THEN h ELSE @,
              !.fboDraw = IF target \in {GL_FRAMEBUFFER, GL_DRAW_FRAMEBUFFER}
                          THEN h ELSE @]

\* The storage call the constructor picks.
GLFBO_storage(target, width, height, depth) ==
    IF depth # 1 THEN Call("glTexStorage3D", <<target, width, height, depth>>)
    ELSE IF height # 1 THEN Call("glTexStorage2D", <<target, width, height>>)
    ELSE Call("glTexStorage1D", <<target, width>>)

GLFBO_ctor(w, target, width, height, depth) ==
    /\ Running /\ Free(w)
    /\ \E h \in Unused("GLFBO") :
        /\ wrappers' = [wrappers EXCEPT ![w] = Wrapper("GLFBO", h, target)]
        /\ drv' = BindFramebuffer([drv EXCEPT !.live = @ \cup {<<"GLFBO", h>>}],
                                  target, h)
        /\ Step("GLFBO::GLFBO", w, <<target, width, height, depth>>,
                <<CallRet("glGenFramebuffers", <<1>>, h),
                  Call("glBindFramebuffer", <<target, h>>),
                  Call("glObjectLabel", <<"GL_FRAMEBUFFER", h>>),
                  GLFBO_storage(target, width, height, depth)>>, 0)

GLFBO_dtor(w) ==
    /\ Running /\ Alive(w, "GLFBO")
    /\ LET h == wrappers[w].handle IN
        /\ wrappers' = [wrappers EXCEPT ![w] = Destroyed]
        /\ drv' = [drv EXCEPT !.live = @ \ {<<"GLFBO", h>>},
                              !.fboRead = IF @ = h THEN 0 ELSE @,
                              !.fboDraw = IF @ = h THEN 0 ELSE @]
        /\ Step("GLFBO::~GLFBO", w, <<>>, <<Call("glDeleteFramebuffers", <<h>>)>>, 0)

GLFBO_bind(w, tgt) ==
    /\ Running /\ Alive(w, "GLFBO")
    /\ LET h == wrappers[w].handle IN
        /\ wrappers' = [wrappers EXCEPT ![w].target = tgt]
        /\ drv' = BindFramebuffer(drv, tgt, h)
        /\ Step("GLFBO::bind", w, <<tgt>>, <<Call("glBindFramebuffer", <<tgt, h>>)>>, 0)

\* Mutant: unbind() clears the stored target before it issues the call.
GLFBO_unbind_ClearFirst(w) ==
    /\ Running /\ Alive(w, "GLFBO")
    /\ drv' = BindFramebuffer(drv, 0, 0)
    /\ wrappers' = [wrappers EXCEPT ![w].target = 0]
    /\ Step("GLFBO::unbind", w, <<>>, <<Call("glBindFramebuffer", <<0, 0>>)>>, 0)

GLFBO_unbind(w) ==
    /\ Running /\ Alive(w, "GLFBO")
    /\ LET t == wrappers[w].target IN
        /\ drv' = BindFramebuffer(drv, t, 0)
        /\ wrappers' = [wrappers EXCEPT ![w].target = 0]
        /\ Step("GLFBO::unbind", w, <<>>, <<Call("glBindFramebuffer", <<t, 0>>)>>, 0)

GLFBO_attach(w, texture) ==
    /\ Running /\ Alive(w, "GLFBO")
    /\ Forward("GLFBO::attach", w, <<texture>>,
               <<Call("glFramebufferTexture", <<wrappers[w].target, texture>>)>>, 0)

\* detach(attachment) is attach(attachment, 0, 0).
GLFBO_detach(w) ==
    /\ Running /\ Alive(w, "GLFBO")
    /\ Forward("GLFBO::detach", w, <<>>,
               <<Call("glFramebufferTexture", <<wrappers[w].target, 0>>)>>, 0)

\* status(), and complete() which compares it with GL_FRAMEBUFFER_COMPLETE:
\* the driver's answer is any value; 1 stands for complete.
GLFBO_status(w, complete) ==
    /\ Running /\ Alive(w, "GLFBO")
    /\ Forward("GLFBO::status", w, <<>>,
               <<CallRet("glCheckFramebufferStatus", <<wrappers[w].target>>,
                         IF complete THEN 1 ELSE 0)>>,
               IF complete THEN 1 ELSE 0)

\* ======================= GLSLShader =======================
\* compile(): returns status != GL_FALSE.
GLSLShader_compileCalls(h, ok) ==
    <<Call("glCompileShader", <<h>>),
      CallRet("glGetShaderiv", <<h, "GL_COMPILE_STATUS">>, IF ok THEN 1 ELSE 0)>>

\* Mutant: the length is tested with >= 0.
GLSLShader_getLogOp_NonNegative(h, logLength) ==
    IF logLength >= 0
    THEN [calls |-> <<CallRet("glGetShaderiv", <<h, "GL_INFO_LOG_LENGTH">>, logLength),
                      Call("new char[]", <<logLength>>),
                      Call("glGetShaderInfoLog", <<h, logLength>>)>>,
          ret |-> logLength]
    ELSE [calls |-> <<CallRet("glGetShaderiv", <<h, "GL_INFO_LOG_LENGTH">>, logLength)>>,
          ret |-> 0]

\* getLog(): the calls it issues and the buffer it returns (0: null,
\* n > 0: a buffer of n chars), for the log length the driver reports.
GLSLShader_getLogOp(h, logLength) ==
    IF logLength > 0
    THEN [calls |-> <<CallRet("glGetShaderiv", <<h, "GL_INFO_LOG_LENGTH">>, logLength),
                      Call("new char[]", <<logLength>>),
                      Call("glGetShaderInfoLog", <<h, logLength>>)>>,
          ret |-> logLength]
    ELSE [calls |-> <<CallRet("glGetShaderiv", <<h, "GL_INFO_LOG_LENGTH">>, logLength)>>,
          ret |-> 0]

\* printf("LOG: %s\n", log): log is the buffer getLog returned (0: null).
PrintLog(log) == Call("printf", <<"LOG: %s", log>>)

\* Passing a null pointer for %s is undefined: the call prints or faults.
PrintLogFaults(log, nullOutcome) == log = 0 /\ nullOutcome = "faults"

GLSLShader_ctorCalls(h, ok, logLength) ==
    <<CallRet("glCreateShader", <<>>, h),
      Call("glObjectLabel", <<"GL_SHADER", h>>),
      Call("glShaderSource", <<h>>)>>
    \o GLSLShader_compileCalls(h, ok)
    \o (IF ~ok
        THEN GLSLShader_getLogOp(h, logLength).calls
             \o <<PrintLog(GLSLShader_getLogOp(h, logLength).ret)>>
        ELSE <<>>)

GLSLShader_ctor(w, ok, logLength, nullOutcome) ==
    /\ Running /\ Free(w)
    /\ \E h \in Unused("GLSLShader") :
        LET faults == ~ok /\ PrintLogFaults(GLSLShader_getLogOp(h, logLength).ret,
                                            nullOutcome)
        IN  /\ drv' = [drv EXCEPT !.live = @ \cup {<<"object", h>>}]
            /\ wrappers' = IF faults THEN wrappers
                           ELSE [wrappers EXCEPT ![w] = Wrapper("GLSLShader", h, 0)]
            /\ proc' = IF faults THEN "faulted" ELSE proc
            /\ lastOp' = Op("GLSLShader::GLSLShader", w, <<>>)
            /\ lastCalls' = GLSLShader_ctorCalls(h, ok, logLength)
            /\ lastRet' = 0
            /\ UNCHANGED <<NDEBUG, markers>>

GLSLShader_dtor(w) ==
    /\ Running /\ Alive(w, "GLSLShader")
    /\ LET h == wrappers[w].handle IN
        /\ wrappers' = [wrappers EXCEPT ![w] = Destroyed]
        /\ drv' = [drv EXCEPT !.live = @ \ {<<"object", h>>}]
        /\ Step("GLSLShader::~GLSLShader", w, <<>>, <<Call("glDeleteShader", <<h>>)>>, 0)

GLSLShader_compile(w, ok) ==
    /\ Running /\ Alive(w, "GLSLShader")
    /\ Forward("GLSLShader::compile", w, <<>>,
               GLSLShader_compileCalls(wrappers[w].handle, ok), IF ok THEN 1 ELSE 0)

GLSLShader_getLog(w, logLength) ==
    /\ Running /\ Alive(w, "GLSLShader")
    /\ Forward("GLSLShader::getLog", w, <<>>,
               GLSLShader_getLogOp(wrappers[w].handle, logLength).calls,
               GLSLShader_getLogOp(wrappers[w].handle, logLength).ret)

\* ======================= GLSLProgram =======================
\* The driver's state after one call on a program object.
\*   glAttachShader / glDetachShader: attaching an attached shader and
\*     detaching a shader that is not attached are GL_INVALID_OPERATION and
\*     change nothing;
\*   glGetProgramiv(GL_LINK_STATUS): reports the status the last glLinkProgram
\*     left, which is where the model records it;
\*   glUseProgram: GL_INVALID_OPERATION, changing nothing, unless the program
\*     linked.
ApplyCall(d, call) ==
    CASE call.fn = "glCreateProgram" ->
            [d EXCEPT !.live = @ \cup {<<"object", call.ret>>}]
      [] call.fn = "glAttachShader" ->
            [d EXCEPT !.attached[call.args[1]] = @ \cup {call.args[2]}]
      [] call.fn = "glDetachShader" ->
            [d EXCEPT !.attached[call.args[1]] = @ \ {call.args[2]}]
      [] call.fn = "glGetProgramiv" /\ call.args[2] = "GL_LINK_STATUS" ->
            [d EXCEPT !.linked = IF call.ret # 0 THEN @ \cup {call.args[1]}
                                 ELSE @ \ {call.args[1]}]
      [] call.fn = "glUseProgram" ->
            IF call.args[1] \in d.linked THEN [d EXCEPT !.curProgram = call.args[1]]
            ELSE d
      [] OTHER -> d

RECURSIVE ApplyCalls(_, _)
ApplyCalls(d, calls) ==
    IF calls = <<>> THEN d
    ELSE ApplyCalls(ApplyCall(d, Head(calls)), Tail(calls))

\* link(): returns status != 0.
GLSLProgram_linkCalls(h, ok) ==
    <<Call("glLinkProgram", <<h>>),
      Call("glValidateProgram", <<h>>),
      CallRet("glGetProgramiv", <<h, "GL_LINK_STATUS">>, IF ok THEN 1 ELSE 0)>>

GLSLProgram_getLogOp(h, logLength) ==
    IF logLength > 0
    THEN [calls |-> <<CallRet("glGetProgramiv", <<h, "GL_INFO_LOG_LENGTH">>, logLength),
                      Call("new char[]", <<logLength>>),
                      Call("glGetProgramInfoLog", <<h, logLength>>)>>,
          ret |-> logLength]
    ELSE [calls |-> <<CallRet("glGetProgramiv", <<h, "GL_INFO_LOG_LENGTH">>, logLength)>>,
          ret |-> 0]

AttachCalls(h, shaders) ==
    [i \in 1..Len(shaders) |-> Call("glAttachShader", <<h, shaders[i]>>)]

DetachCalls(h, shaders) ==
    [i \in 1..Len(shaders) |-> Call("glDetachShader", <<h, shaders[i]>>)]

\* Mutant: use() is called whether or not link() succeeded.
GLSLProgram_ctorHead_AlwaysUse(h, shaders, ok, logLength) ==
    <<CallRet("glCreateProgram", <<>>, h),
      Call("glObjectLabel", <<"GL_PROGRAM", h>>)>>
    \o AttachCalls(h, shaders)
    \o GLSLProgram_linkCalls(h, ok)
    \o (IF ~ok
        THEN GLSLProgram_getLogOp(h, logLength).calls
             \o <<PrintLog(GLSLProgram_getLogOp(h, logLength).ret)>>
        ELSE <<>>)
    \o <<Call("glUseProgram", <<h>>)>>

\* The constructor's calls up to and including the if/else on link().
GLSLProgram_ctorHead(h, shaders, ok, logLength) ==
    <<CallRet("glCreateProgram", <<>>, h),
      Call("glObjectLabel", <<"GL_PROGRAM", h>>)>>
    \o AttachCalls(h, shaders)
    \o GLSLProgram_linkCalls(h, ok)
    \o (IF ~ok
        THEN GLSLProgram_getLogOp(h, logLength).calls
             \o <<PrintLog(GLSLProgram_getLogOp(h, logLength).ret)>>
        ELSE <<Call("glUseProgram", <<h>>)>>)

\* Mutant: the trailing loop detaches the first shader only.
GLSLProgram_ctorTail_FirstOnly(h, shaders) ==
    IF shaders = <<>> THEN <<>>
    ELSE <<Call("glDetachShader", <<h, shaders[1]>>)>>

\* The constructor's trailing loop.
GLSLProgram_ctorTail(h, shaders) == DetachCalls(h, shaders)

\* shaderSlots: the slots of the GLSLShader objects the initializer list
\* points to.  A null %s that faults ends the process inside the constructor,
\* before the detach loop.
GLSLProgram_ctor(w, shaderSlots, ok, logLength, nullOutcome) ==
    /\ Running /\ Free(w)
    /\ \A i \in 1..Len(shaderSlots) : Alive(shaderSlots[i], "GLSLShader")
    /\ \E h \in Unused("GLSLProgram") :
        LET shaders == [i \in 1..Len(shaderSlots) |-> wrappers[shaderSlots[i]].handle]
            faults == ~ok /\ PrintLogFaults(GLSLProgram_getLogOp(h, logLength).ret,
                                            nullOutcome)
            calls == IF faults THEN GLSLProgram_ctorHead(h, shaders, ok, logLength)
                     ELSE GLSLProgram_ctorHead(h, shaders, ok, logLength)
                          \o GLSLProgram_ctorTail(h, shaders)
        IN  /\ lastOp' = Op("GLSLProgram::GLSLProgram", w, shaders)
            /\ lastRet' = 0
            /\ lastCalls' = calls
            /\ drv' = ApplyCalls(drv, calls)
            /\ proc' = IF faults THEN "faulted" ELSE proc
            /\ wrappers' = IF faults THEN wrappers
                           ELSE [wrappers EXCEPT ![w] = Wrapper("GLSLProgram", h, 0)]
            /\ UNCHANGED <<NDEBUG, markers>>

\* glDeleteProgram: the name is released; a program that is current stays
\* current (the driver drops it once another program is used).
GLSLProgram_dtor(w) ==
    /\ Running /\ Alive(w, "GLSLProgram")
    /\ LET h == wrappers[w].handle IN
        /\ wrappers' = [wrappers EXCEPT ![w] = Destroyed]
        /\ drv' = [drv EXCEPT !.live = @ \ {<<"object", h>>},
                              !.linked = @ \ {h},
                              !.attached[h] = {}]
        /\ Step("GLSLProgram::~GLSLProgram", w, <<>>,
                <<Call("glDeleteProgram", <<h>>)>>, 0)

GLSLProgram_use(w) ==
    /\ Running /\ Alive(w, "GLSLProgram")
    /\ LET calls == <<Call("glUseProgram", <<wrappers[w].handle>>)>> IN
        /\ drv' = ApplyCalls(drv, calls)
        /\ UNCHANGED wrappers
        /\ Step("GLSLProgram::use", w, <<>>, calls, 0)

GLSLProgram_link(w, ok) ==
    /\ Running /\ Alive(w, "GLSLProgram")
    /\ LET calls == GLSLProgram_linkCalls(wrappers[w].handle, ok) IN
        /\ drv' = ApplyCalls(drv, calls)
        /\ UNCHANGED wrappers
        /\ Step("GLSLProgram::link", w, <<>>, calls, IF ok THEN 1 ELSE 0)

GLSLProgram_getLog(w, logLength) ==
    /\ Running /\ Alive(w, "GLSLProgram")
    /\ Forward("GLSLProgram::getLog", w, <<>>,
               GLSLProgram_getLogOp(wrappers[w].handle, logLength).calls,
               GLSLProgram_getLogOp(wrappers[w].handle, logLength).ret)

\* ======================= debug output =======================
debugSourceString(source) ==
    CASE source = "GL_DEBUG_SOURCE_API" -> "API"
      [] source = "GL_DEBUG_SOURCE_WINDOW_SYSTEM" -> "Window System"
      [] source = "GL_DEBUG_SOURCE_SHADER_COMPILER" -> "Shader Compiler"
      [] source = "GL_DEBUG_SOURCE_THIRD_PARTY" -> "Third Party"
      [] source = "GL_DEBUG_SOURCE_APPLICATION" -> "Application"
      [] source = "GL_DEBUG_SOURCE_OTHER" -> "Other"
      [] OTHER -> "UNKNOWN"

debugTypeString(type) ==
    CASE type = "GL_DEBUG_TYPE_ERROR" -> "Error"
      [] type = "GL_DEBUG_TYPE_DEPRECATED_BEHAVIOR" -> "Deprecated"
      [] type = "GL_DEBUG_TYPE_UNDEFINED_BEHAVIOR" -> "Undefined"
      [] type = "GL_DEBUG_TYPE_PORTABILITY" -> "Portability"
      [] type = "GL_DEBUG_TYPE_PERFORMANCE" -> "Performance"
      [] type = "GL_DEBUG_TYPE_OTHER" -> "Other"
      [] type = "GL_DEBUG_TYPE_MARKER" -> "Marker"
      [] OTHER -> "UNKNOWN"

debugSeverityString(severity) ==
    CASE severity = "GL_DEBUG_SEVERITY_HIGH" -> "High"
      [] severity = "GL_DEBUG_SEVERITY_MEDIUM" -> "Medium"
      [] severity = "GL_DEBUG_SEVERITY_LOW" -> "Low"
      [] severity = "GL_DEBUG_SEVERITY_NOTIFICATION" -> "Notification"
      [] OTHER -> "UNKNOWN"

\* Mutant: the severity is not looked at.
callback_ErrorOnly(source, type, severity) ==
    <<Call("fprintf", <<"stderr", debugSourceString(source), debugTypeString(type),
                        debugSeverityString(severity)>>)>>
    \o (IF type = "GL_DEBUG_TYPE_ERROR"
        THEN <<Call("exit", <<1>>)>>
        ELSE <<>>)

\* The lambda: what it writes and calls, in order.
callback(source, type, severity) ==
    <<Call("fprintf", <<"stderr", debugSourceString(source), debugTypeString(type),
                        debugSeverityString(severity)>>)>>
    \o (IF type = "GL_DEBUG_TYPE_ERROR" \/ severity = "GL_DEBUG_SEVERITY_HIGH"
        THEN <<Call("exit", <<1>>)>>
        ELSE <<>>)

setupStderrDebugCallback ==
    /\ Running
    /\ drv' = [drv EXCEPT !.debugOutput = TRUE]
    /\ UNCHANGED wrappers
    /\ Step("setupStderrDebugCallback", 0, <<>>,
            <<Call("glEnable", <<"GL_DEBUG_OUTPUT">>),
              Call("glDebugMessageCallback", <<"callback">>)>>, 0)

\* The driver invokes the installed callback with a message of its choosing.
\* The process ends at the first exit the callback reaches.
DebugMessage(source, type, severity) ==
    /\ Running /\ drv.debugOutput
    /\ LET calls == callback(source, type, severity)
           exits == Positions(calls, {"exit"})
           upto == IF exits = {} THEN Len(calls)
                   ELSE CHOOSE i \in exits : \A j \in exits : i <= j
       IN  /\ lastCalls' = SubSeq(calls, 1, upto)
           /\ proc' = IF exits = {} THEN proc ELSE "exited"
    /\ lastOp' = Op("callback", 0, <<source, type, severity>>)
    /\ lastRet' = 0
    /\ UNCHANGED <<NDEBUG, wrappers, markers, drv>>

\* ======================= GLScopedDebugMarker =======================
\* The calls of the constructor and of the destructor under the build's NDEBUG.
GLScopedDebugMarker_ctorCalls(ndebug) ==
    IF ~ndebug THEN <<Call("glPushDebugGroup", <<"GL_DEBUG_SOURCE_APPLICATION", 0, -1>>)>>
    ELSE <<>>

\* Mutant: the destructor is empty in every build.
GLScopedDebugMarker_dtorCalls_Empty(ndebug) == <<>>

GLScopedDebugMarker_dtorCalls(ndebug) ==
    IF ~ndebug THEN <<Call("glPopDebugGroup", <<>>)>>
    ELSE <<>>

\* The driver's debug group stack after a sequence of calls.
GroupDepthAfter(depth, calls) ==
    depth + CountFn(calls, {"glPushDebugGroup"}) - CountFn(calls, {"glPopDebugGroup"})

\* Scopes nest: a marker is destroyed before every marker that was live when
\* it was constructed, so the number of live markers is all their state.
GLScopedDebugMarker_ctor ==
    /\ Running /\ markers < MaxMarkers
    /\ markers' = markers + 1
    /\ lastOp' = Op("GLScopedDebugMarker::GLScopedDebugMarker", 0, <<>>)
    /\ lastCalls' = GLScopedDebugMarker_ctorCalls(NDEBUG)
    /\ drv' = [drv EXCEPT !.groupDepth = GroupDepthAfter(@, lastCalls')]
    /\ lastRet' = 0
    /\ UNCHANGED <<NDEBUG, proc, wrappers>>

GLScopedDebugMarker_dtor ==
    /\ Running /\ markers > 0
    /\ markers' = markers - 1
    /\ lastOp' = Op("GLScopedDebugMarker::~GLScopedDebugMarker", 0, <<>>)
    /\ lastCalls' = GLScopedDebugMarker_dtorCalls(NDEBUG)
    /\ drv' = [drv EXCEPT !.groupDepth = GroupDepthAfter(@, lastCalls')]
    /\ lastRet' = 0
    /\ UNCHANGED <<NDEBUG, proc, wrappers>>

\* ======================= specifications =======================
NextVAO(S) == \E w \in S : VAO_ctor(w) \/ VAO_dtor(w) \/ VAO_bind(w)

NextBuffer(S) ==
    \E w \in S :
        \/ \E target \in BufferTargets : GLBuffer_ctor(w, target)
        \/ GLBuffer_dtor(w)
        \/ GLBuffer_bind(w)
        \/ GLBuffer_unbind(w)
        \/ GLBuffer_bindBase(w)
        \/ GLBuffer_bindRange(w)
        \/ GLBuffer_setStorage(w)
        \/ GLBuffer_setData(w)
        \/ GLBuffer_setSubData(w)
        \/ GLBuffer_map(w)
        \/ GLBuffer_mapRange(w)
        \/ GLBuffer_unmap(w)

NextTexture(S) ==
    \E w \in S :
        \/ \E target \in TexTargets, width \in Widths, height, depth \in Dims :
              GLTexture_ctor(w, target, width, height, depth)
        \/ GLTexture_dtor(w)
        \/ GLTexture_bind(w)
        \/ GLTexture_setSubData(w)
        \/ GLTexture_generateMipmaps(w)
        \/ \E integral, borderColor \in BOOLEAN :
              \E overrun \in IF borderColor /\ NDEBUG THEN {"returns", "faults"}
                                                      ELSE {"returns"} :
                 GLTexture_get(w, integral, borderColor, overrun)
        \/ \E integral \in BOOLEAN : GLTexture_set(w, integral)

NextFBO(S) ==
    \E w \in S :
        \/ \E target \in FBOTargets, width \in Widths, height, depth \in Dims :
              GLFBO_ctor(w, target, width, height, depth)
        \/ GLFBO_dtor(w)
        \/ \E tgt \in FBOTargets : GLFBO_bind(w, tgt)
        \/ GLFBO_unbind(w)
        \/ \E texture \in {0} \cup {h \in Handles : <<"GLTexture", h>> \in drv.live} :
              GLFBO_attach(w, texture)
        \/ GLFBO_detach(w)
        \/ \E complete \in BOOLEAN : GLFBO_status(w, complete)

NextShader(S) ==
    \E w \in S :
        \/ \E a \in StatusAnswers : GLSLShader_ctor(w, a.ok, a.logLength, a.nullOutcome)
        \/ GLSLShader_dtor(w)
        \/ \E ok \in BOOLEAN : GLSLShader_compile(w, ok)
        \/ \E logLength \in LogLens : GLSLShader_getLog(w, logLength)

\* The initializer list holds pointers to live GLSLShader objects, in any
\* order and with repeats.
NextProgram(S) ==
    \E w \in S :
        \/ \E shaderSlots \in SeqsUpTo({x \in Slots : Alive(x, "GLSLShader")}, MaxShaders),
              a \in StatusAnswers :
              GLSLProgram_ctor(w, shaderSlots, a.ok, a.logLength, a.nullOutcome)
        \/ GLSLProgram_dtor(w)
        \/ GLSLProgram_use(w)
        \/ \E ok \in BOOLEAN : GLSLProgram_link(w, ok)
        \/ \E logLength \in LogLens : GLSLProgram_getLog(w, logLength)

NextDebug ==
    \/ setupStderrDebugCallback
    \/ \E source \in DebugSources, type \in DebugTypes, severity \in DebugSeverities :
          DebugMessage(source, type, severity)
    \/ GLScopedDebugMarker_ctor
    \/ GLScopedDebugMarker_dtor

\* The six resource wrappers, MaxMixed objects of any kind side by side.
Next ==
    \/ NextVAO(MixedSlots)
    \/ NextBuffer(MixedSlots)
    \/ NextTexture(MixedSlots)
    \/ NextFBO(MixedSlots)
    \/ NextShader(MixedSlots)
    \/ NextProgram(MixedSlots)

Spec == Init /\ [][Next]_vars

\* MaxShaderObjects shaders side by side and the programs built from them.
NextGLSL == NextShader(ShaderSlots) \/ NextProgram(ProgramSlots)

SpecGLSL == Init /\ [][NextGLSL]_vars

\* The debug callback and the scoped markers.
SpecDebug == Init /\ [][NextDebug]_vars

\* ======================= properties =======================
CtorNames == {"VAO::VAO", "GLBuffer::GLBuffer", "GLTexture::GLTexture", "GLFBO::GLFBO",
              "GLSLShader::GLSLShader", "GLSLProgram::GLSLProgram"}
DtorNames == {"VAO::~VAO", "GLBuffer::~GLBuffer", "GLTexture::~GLTexture",
              "GLFBO::~GLFBO", "GLSLShader::~GLSLShader", "GLSLProgram::~GLSLProgram"}
DeleteFns == {"glDeleteVertexArrays", "glDeleteBuffers", "glDeleteTextures",
              "glDeleteFramebuffers", "glDeleteShader", "glDeleteProgram"}
DeleteFn(kind) ==
    CASE kind = "VAO" -> "glDeleteVertexArrays"
      [] kind = "GLBuffer" -> "glDeleteBuffers"
      [] kind = "GLTexture" -> "glDeleteTextures"
      [] kind = "GLFBO" -> "glDeleteFramebuffers"
      [] kind = "GLSLShader" -> "glDeleteShader"
      [] kind = "GLSLProgram" -> "glDeleteProgram"
StorageFns == {"glTexStorage1D", "glTexStorage2D", "glTexStorage3D",
               "glBufferStorage", "glBufferData"}
BindFns == {"glBindVertexArray", "glBindBuffer", "glBindTexture", "glBindFramebuffer",
            "glUseProgram", "glBindBufferBase", "glBindBufferRange"}

AliveSlots == {w \in Slots : wrappers[w].st = "alive"}
Held(w) == <<Namespace(wrappers[w].kind), wrappers[w].handle>>

\* The last operation was a constructor that returned, leaving its object in
\* its slot.
Constructed(kind) ==
    /\ lastOp.name \in CtorNames
    /\ Running
    /\ wrappers[lastOp.w].st = "alive"
    /\ wrappers[lastOp.w].kind = kind

\* The status a compile or link query of the last operation reported.
StatusQueries(calls) ==
    {i \in 1..Len(calls) :
        /\ calls[i].fn \in {"glGetShaderiv", "glGetProgramiv"}
        /\ calls[i].args[2] \in {"GL_COMPILE_STATUS", "GL_LINK_STATUS"}}
StatusFailed(calls) == \E i \in StatusQueries(calls) : calls[i].ret = 0
StatusOk(calls) == \E i \in StatusQueries(calls) : calls[i].ret # 0

\* ---- C1 ----
\* While the process runs, the names the driver holds are exactly the handles
\* of the live wrappers, one wrapper per name.
C1_NoLeak ==
    Running =>
        /\ drv.live = {Held(w) : w \in AliveSlots}
        /\ \A v, w \in AliveSlots : Held(v) = Held(w) => v = w

\* A step keeps the handle of every wrapper that stays alive; a wrapper that
\* ceases to be alive does so in its own destructor, which issues one delete
\* call, for its handle; and no other step issues a delete call.
C1_Step ==
    /\ \A w \in Slots :
          wrappers[w].st = "alive" =>
             IF wrappers'[w].st = "alive"
             THEN /\ wrappers'[w].handle = wrappers[w].handle
                  /\ wrappers'[w].kind = wrappers[w].kind
             ELSE /\ lastOp'.name \in DtorNames
                  /\ lastOp'.w = w
                  /\ lastCalls' = <<Call(DeleteFn(wrappers[w].kind),
                                         <<wrappers[w].handle>>)>>
                  /\ Held(w) \notin drv'.live
    /\ CountFn(lastCalls', DeleteFns) > 0 =>
          /\ lastOp'.name \in DtorNames
          /\ wrappers[lastOp'.w].st = "alive"
          /\ wrappers'[lastOp'.w].st = "destroyed"

C2_DetachesAll ==
    Constructed("GLSLProgram") =>
        /\ drv.attached[wrappers[lastOp.w].handle] = {}
        /\ CountFn(lastCalls, {"glAttachShader"}) = Len(lastOp.args)
        /\ CountFn(lastCalls, {"glDetachShader"}) = Len(lastOp.args)
        /\ CountFn(lastCalls, DeleteFns) = 0
        /\ \A i \in 1..Len(lastOp.args) : <<"object", lastOp.args[i]>> \in drv.live

\* A program constructed from two different shaders whose link failed.
C2_Witness ==
    /\ Constructed("GLSLProgram")
    /\ StatusFailed(lastCalls)
    /\ Len(lastOp.args) = 2
    /\ lastOp.args[1] # lastOp.args[2]

\* ---- C3 ----
IsProgramCtor(op) == op.name = "GLSLProgram::GLSLProgram"

\* The order of the constructor's calls.
C3_Order ==
    IsProgramCtor(lastOp) =>
        LET c == lastCalls
            n == Len(lastOp.args)
            attach == Positions(c, {"glAttachShader"})
            link == Positions(c, {"glLinkProgram"})
            use == Positions(c, {"glUseProgram"})
            detach == Positions(c, {"glDetachShader"})
        IN  /\ c[1].fn = "glCreateProgram"
            /\ Cardinality(Positions(c, {"glCreateProgram"})) = 1
            /\ Cardinality(link) = 1
            /\ attach = 3..(n + 2)
            /\ \A i \in 1..n : c[i + 2].args = <<c[1].ret, lastOp.args[i]>>
            /\ \A a \in attach, l \in link : a < l
            /\ \A u \in use, l \in link : l < u
            /\ \A d \in detach, l \in link : l < d
            /\ \A d \in detach, u \in use : u < d
            /\ (use # {}) <=> StatusOk(c)
            /\ Cardinality(use) <= 1
            /\ Running =>
                  /\ detach = (Len(c) - n + 1)..Len(c)
                  /\ \A i \in 1..n :
                        c[Len(c) - n + i].args = <<c[1].ret, lastOp.args[i]>>

\* A constructor whose link failed leaves the driver's current program alone.
C3_Step ==
    (IsProgramCtor(lastOp') /\ StatusFailed(lastCalls')) =>
        drv'.curProgram = drv.curProgram

\* C3: the GLSLProgram constructor issues create, then the attach of every
\* shader, then link, then glUseProgram only if the link succeeded, then the
\* detach of every shader; and when the link fails the current program is
\* unchanged.
C3_CallOrder == [](C3_Order) /\ [][C3_Step]_vars

\* A constructor with shaders returned after a failed link while another
\* program was current.
C3_Witness ==
    /\ Constructed("GLSLProgram")
    /\ StatusFailed(lastCalls)
    /\ Len(lastOp.args) >= 1
    /\ drv.curProgram # 0

\* ---- C4 ----
\* One step, seen from every live GLFBO.
C4_Step ==
    \A w \in Slots :
        wrappers'[w].st = "alive" /\ wrappers'[w].kind = "GLFBO" =>
            CASE lastOp'.w = w /\ lastOp'.name \in {"GLFBO::GLFBO", "GLFBO::bind"} ->
                    wrappers'[w].target = lastOp'.args[1]
              [] lastOp'.w = w /\ lastOp'.name = "GLFBO::unbind" ->
                    /\ lastCalls' = <<Call("glBindFramebuffer",
                                           <<wrappers[w].target, 0>>)>>
                    /\ wrappers'[w].target = 0
              [] OTHER ->
                    wrappers'[w].target = wrappers[w].target

\* C4: the constructor and bind(t) store their target; unbind() issues
\* glBindFramebuffer(x, 0) with x the stored target, that is the target of the
\* most recent bind, or of the constructor, when no unbind came in between,
\* and leaves the stored target 0; no other operation changes the stored
\* target.
C4_UnbindUsesBoundTarget == [][C4_Step]_vars

\* unbind() has just undone a bind to GL_DRAW_FRAMEBUFFER.
C4_Witness ==
    /\ lastOp.name = "GLFBO::unbind"
    /\ lastCalls[1].args = <<GL_DRAW_FRAMEBUFFER, 0>>
    /\ wrappers[lastOp.w].target = 0
    /\ drv.fboDraw = 0

\* ---- C5 ----
\* C5: for every source, type and severity, the callback writes its one line
\* first, and the process ends (by exit, after that line) exactly when the
\* type is GL_DEBUG_TYPE_ERROR or the severity GL_DEBUG_SEVERITY_HIGH;
\* after any other message the process is still running.
C5_FatalIffErrorOrHigh ==
    lastOp.name = "callback" =>
        LET fatal == \/ lastOp.args[2] = "GL_DEBUG_TYPE_ERROR"
                     \/ lastOp.args[3] = "GL_DEBUG_SEVERITY_HIGH"
        IN  /\ lastCalls[1].fn = "fprintf"
            /\ lastCalls[1].args = <<"stderr", debugSourceString(lastOp.args[1]),
                                     debugTypeString(lastOp.args[2]),
                                     debugSeverityString(lastOp.args[3])>>
            /\ CountFn(lastCalls, {"fprintf"}) = 1
            /\ (proc = "exited") <=> fatal
            /\ (proc = "running") <=> ~fatal
            /\ lastCalls = IF fatal THEN <<lastCalls[1], Call("exit", <<1>>)>>
                           ELSE <<lastCalls[1]>>

\* A message that is no error but of high severity ended the process.
C5_Witness ==
    /\ lastOp.name = "callback"
    /\ lastOp.args[2] = "GL_DEBUG_TYPE_PERFORMANCE"
    /\ lastOp.args[3] = "GL_DEBUG_SEVERITY_HIGH"
    /\ proc = "exited"

\* ---- C6 ----
\* What the driver has current at the binding point a wrapper's kind and
\* target name (shaders and programs: the current program).
CurrentIs(kind, target, h) ==
    CASE kind = "VAO" -> drv.curVAO = h
      [] kind = "GLBuffer" -> drv.bufBinding[target] = h
      [] kind = "GLTexture" -> drv.texBinding[target] = h
      [] kind = "GLFBO" ->
            /\ target \in {GL_FRAMEBUFFER, GL_READ_FRAMEBUFFER} => drv.fboRead = h
            /\ target \in {GL_FRAMEBUFFER, GL_DRAW_FRAMEBUFFER} => drv.fboDraw = h
      [] kind \in {"GLSLShader", "GLSLProgram"} -> drv.curProgram = h

\* C6 as stated: when a constructor of any of the six kinds returns, the new
\* handle is the driver's current object for the wrapper's target.
C6_Original ==
    \A kind \in Kinds :
        Constructed(kind) =>
            CurrentIs(kind, wrappers[lastOp.w].target, wrappers[lastOp.w].handle)

\* C6 amended: when its constructor returns, a VAO, GLBuffer, GLTexture or
\* GLFBO is current for its target; a GLSLProgram is the current program
\* exactly when its link succeeded; a GLSLShader is not current anywhere and
\* its constructor issued no bind call.
C6_Amended ==
    \A kind \in Kinds :
        Constructed(kind) =>
            LET cur == CurrentIs(kind, wrappers[lastOp.w].target,
                                 wrappers[lastOp.w].handle)
            IN  CASE kind \in {"VAO", "GLBuffer", "GLTexture", "GLFBO"} -> cur
                  [] kind = "GLSLProgram" -> cur <=> StatusOk(lastCalls)
                  [] kind = "GLSLShader" -> ~cur /\ CountFn(lastCalls, BindFns) = 0

\* A program whose link failed was constructed and is not current.
C6_Witness ==
    /\ Constructed("GLSLProgram")
    /\ StatusFailed(lastCalls)
    /\ drv.curProgram # wrappers[lastOp.w].handle

\* ---- C7 ----
\* C7 as stated: a constructor whose compile or link failed prints the log
\* and returns, also when the log is empty: the process still runs and the
\* wrapper holds the handle the driver created.
C7_FailureContinues ==
    (lastOp.name \in {"GLSLShader::GLSLShader", "GLSLProgram::GLSLProgram"}
     /\ StatusFailed(lastCalls)) =>
        /\ proc = "running"
        /\ wrappers[lastOp.w].st = "alive"
        /\ wrappers[lastOp.w].handle = lastCalls[1].ret
        /\ lastCalls[1].ret # 0

\* ---- C8 ----
\* C8: getLog of a shader or a program queries the length first; when the
\* length is not positive it returns null and issues neither an allocation
\* nor a fetch; when it is positive it allocates that many chars once and
\* issues one fetch, after the query, for that buffer and length.
C8_GetLog ==
    lastOp.name \in {"GLSLShader::getLog", "GLSLProgram::getLog"} =>
        LET h == wrappers[lastOp.w].handle
            c == lastCalls
            len == c[1].ret
            fetch == IF lastOp.name = "GLSLShader::getLog" THEN "glGetShaderInfoLog"
                     ELSE "glGetProgramInfoLog"
        IN  /\ c[1].fn = (IF lastOp.name = "GLSLShader::getLog" THEN "glGetShaderiv"
                          ELSE "glGetProgramiv")
            /\ c[1].args = <<h, "GL_INFO_LOG_LENGTH">>
            /\ IF len <= 0
               THEN /\ lastRet = 0
                    /\ Len(c) = 1
               ELSE /\ lastRet = len
                    /\ Len(c) = 3
                    /\ c[2] = Call("new char[]", <<len>>)
                    /\ c[3] = Call(fetch, <<h, len>>)

\* A program's getLog found an empty log and returned null.
C8_Witness ==
    /\ lastOp.name = "GLSLProgram::getLog"
    /\ lastCalls[1].ret = 0
    /\ lastRet = 0

\* ---- C9 ----
\* The storage call the dimensions select.
ExpectedStorage(target, width, height, depth) ==
    IF depth # 1 THEN Call("glTexStorage3D", <<target, width, height, depth>>)
    ELSE IF height # 1 THEN Call("glTexStorage2D", <<target, width, height>>)
    ELSE Call("glTexStorage1D", <<target, width>>)

\* C9 as stated: the constructors of GLBuffer, GLTexture and GLFBO each issue
\* exactly one storage-allocation call.
C9_Original ==
    /\ lastOp.name \in {"GLBuffer::GLBuffer", "GLTexture::GLTexture", "GLFBO::GLFBO"} =>
          CountFn(lastCalls, StorageFns) = 1
    /\ lastOp.name \in {"GLTexture::GLTexture", "GLFBO::GLFBO"} =>
          lastCalls[Len(lastCalls)] =
             ExpectedStorage(lastOp.args[1], lastOp.args[2], lastOp.args[3],
                             lastOp.args[4])

\* C9 amended: the constructors of GLTexture and GLFBO issue exactly one
\* storage call, the 3D one when depth # 1, else the 2D one when height # 1,
\* else the 1D one; the constructor of GLBuffer issues none.
C9_Amended ==
    /\ lastOp.name \in {"GLTexture::GLTexture", "GLFBO::GLFBO"} =>
          /\ CountFn(lastCalls, StorageFns) = 1
          /\ lastCalls[Len(lastCalls)] =
                ExpectedStorage(lastOp.args[1], lastOp.args[2], lastOp.args[3],
                                lastOp.args[4])
    /\ lastOp.name = "GLBuffer::GLBuffer" => CountFn(lastCalls, StorageFns) = 0

\* A texture was constructed with height # 1 and depth # 1: the 3D path.
C9_Witness ==
    /\ lastOp.name = "GLTexture::GLTexture"
    /\ lastOp.args[3] # 1
    /\ lastOp.args[4] # 1
    /\ lastCalls[4].fn = "glTexStorage3D"

\* ---- C10 ----
\* C10: in a debug build a marker's constructor issues one glPushDebugGroup
\* and its destructor one glPopDebugGroup, so the driver's group depth is the
\* number of live markers (0 when all scopes have exited); in an NDEBUG build
\* neither is ever issued and the depth stays 0.
C10_PushPopPerScope ==
    /\ drv.groupDepth = (IF NDEBUG THEN 0 ELSE markers)
    /\ lastOp.name = "GLScopedDebugMarker::GLScopedDebugMarker" =>
          lastCalls = (IF NDEBUG THEN <<>>
                       ELSE <<Call("glPushDebugGroup",
                                   <<"GL_DEBUG_SOURCE_APPLICATION", 0, -1>>)>>)
    /\ lastOp.name = "GLScopedDebugMarker::~GLScopedDebugMarker" =>
          lastCalls = (IF NDEBUG THEN <<>> ELSE <<Call("glPopDebugGroup", <<>>)>>)
    /\ NDEBUG => CountFn(lastCalls, {"glPushDebugGroup", "glPopDebugGroup"}) = 0

\* In a debug build an inner scope has just exited inside an outer one.
C10_Witness ==
    /\ ~NDEBUG
    /\ lastOp.name = "GLScopedDebugMarker::~GLScopedDebugMarker"
    /\ markers = 1
    /\ drv.groupDepth = 1
====
